---- MODULE Spec2Model ----
(***************************************************************************)
(* SSD configuration definition (official/vision/beta/configs/ssd.py).    *)
(*                                                                         *)
(* The module's state is a Python heap: every configuration record and     *)
(* every list is an object with an identity, so that sharing between two   *)
(* configurations is observable.  Loading the module executes its class    *)
(* statements (which evaluate the class-level default instances once) and  *)
(* its two registration decorators; afterwards callers invoke the          *)
(* registered factories, construct schema records and mutate what they     *)
(* were handed.                                                            *)
(*                                                                         *)
(* Python floats are modelled as reduced fractions <<n, d>>; the only      *)
(* float arithmetic of the file (x * 256 / 256.0) is exact in both.        *)
(***************************************************************************)
EXTENDS Integers, Sequences, FiniteSets, TLC

VARIABLES
  pc,        \* the next top-level statement of ssd.py to execute, "loaded" at the end
  heap,      \* Seq of objects; an object's identity is its index; reference 0 is None
  proto,     \* "Class.field" -> identity of the class-level default instance
  registry,  \* exp_factory's registry: key -> name of the registered factory
  inserts,   \* key -> number of times the key was inserted into the registry
  results,   \* the objects handed to callers, in order: [by, root, orig, ov]
  muts       \* number of caller mutations performed so far

vars == <<pc, heap, proto, registry, inserts, results, muts>>

----------------------------------------------------------------------------
(* Bounds of the exploration *)

\* factory invocations / record constructions held by callers at once
MaxResults == 2
\* caller mutations in one behaviour
MaxMutations == 1

----------------------------------------------------------------------------
(* Floats as reduced fractions *)

Abs(n) == IF n < 0 THEN -n ELSE n

RECURSIVE Gcd(_, _)
Gcd(a, b) == IF b = 0 THEN a ELSE Gcd(b, a % b)

\* the float n/d
F(n, d) ==
  LET g == Gcd(Abs(n), Abs(d))
      s == IF d < 0 THEN -1 ELSE 1
  IN  <<(s * n) \div g, (s * d) \div g>>

FMul(x, y) == F(x[1] * y[1], x[2] * y[2])
FDiv(x, y) == F(x[1] * y[2], x[2] * y[1])
FLess(x, y) == x[1] * y[2] < y[1] * x[2]
\* int -> float promotion in mixed arithmetic
ToFloat(n) == F(n, 1)

\* Python's None in an Optional[str] field
None == "<None>"

----------------------------------------------------------------------------
(* The schema records: field names and annotations, in declaration order.  *)
(* Annotations: "bool", "int", "float", "str", "optstr" (Optional[str]),   *)
(* "floats", "ints", "strs" (a reference to a list object, List[float],   *)
(* List[int], List[str]) and "rec" (a reference to a nested record).       *)

TfExampleDecoder_fields == << <<"regenerate_source_id", "bool">> >>
TfExampleDecoder_defaults == [regenerate_source_id |-> FALSE]

TfExampleDecoderLabelMap_fields ==
  << <<"regenerate_source_id", "bool">>, <<"label_map", "str">> >>
TfExampleDecoderLabelMap_defaults == [regenerate_source_id |-> FALSE, label_map |-> ""]

DataDecoder_fields ==
  << <<"type", "optstr">>, <<"simple_decoder", "rec">>, <<"label_map_decoder", "rec">> >>
DataDecoder_defaults_other == [type |-> "label_map_decoder"]
DataDecoder_defaults == [type |-> "simple_decoder"]

Parser_fields ==
  << <<"match_threshold", "float">>, <<"unmatched_threshold", "float">>,
     <<"aug_rand_hflip", "bool">>, <<"aug_scale_min", "float">>,
     <<"aug_scale_max", "float">>, <<"skip_crowd_during_training", "bool">>,
     <<"max_num_instances", "int">> >>
Parser_defaults_typo ==
  [match_threshold |-> F(5, 10), unmatched_threshold |-> F(5, 10),
   aug_rand_hflip |-> FALSE, aug_scale_min |-> F(10, 10), aug_scale_max |-> F(10, 10),
   skip_crowd_during_training |-> TRUE, max_num_instances |-> 10]
Parser_defaults ==
  [match_threshold |-> F(5, 10), unmatched_threshold |-> F(5, 10),
   aug_rand_hflip |-> FALSE, aug_scale_min |-> F(10, 10), aug_scale_max |-> F(10, 10),
   skip_crowd_during_training |-> TRUE, max_num_instances |-> 100]

DataConfig_fields ==
  << <<"input_path", "str">>, <<"global_batch_size", "int">>,
     <<"is_training", "bool">>, <<"dtype", "str">>, <<"decoder", "rec">>,
     <<"parser", "rec">>, <<"shuffle_buffer_size", "int">>, <<"file_type", "str">> >>
DataConfig_defaults ==
  [input_path |-> "", global_batch_size |-> 0, is_training |-> FALSE,
   dtype |-> "bfloat16", shuffle_buffer_size |-> 10000, file_type |-> "tfrecord"]

SSDAnchor_fields ==
  << <<"min_scale", "float">>, <<"max_scale", "float">>, <<"scales", "floats">>,
     <<"aspect_ratios", "floats">>, <<"interpolated_scale_aspect_ratio", "float">>,
     <<"anchor_size", "float">> >>
SSDAnchor_defaults ==
  [min_scale |-> F(2, 10), max_scale |-> F(95, 100),
   interpolated_scale_aspect_ratio |-> F(10, 10), anchor_size |-> F(40, 10)]
\* scales: List[float] = None
SSDAnchor_scales_default == 0
\* default_factory=lambda: [1.0, 2.0, 3.0, 1.0 / 2, 1.0 / 3]
SSDAnchor_aspect_ratios_factory ==
  << F(10, 10), F(20, 10), F(30, 10), FDiv(F(10, 10), ToFloat(2)), FDiv(F(10, 10), ToFloat(3)) >>

Losses_fields ==
  << <<"focal_loss_alpha", "float">>, <<"focal_loss_gamma", "float">>,
     <<"huber_loss_delta", "float">>, <<"box_loss_weight", "int">>,
     <<"l2_weight_decay", "float">> >>
Losses_defaults ==
  [focal_loss_alpha |-> F(25, 100), focal_loss_gamma |-> F(15, 10),
   huber_loss_delta |-> F(1, 10), box_loss_weight |-> 50, l2_weight_decay |-> F(0, 10)]

SSDHead_fields ==
  << <<"kernel_size", "int">>, <<"use_depthwise", "bool">>, <<"activation", "str">>,
     <<"use_sync_bn", "bool">>, <<"freeze_norm", "bool">>,
     <<"add_background_class", "bool">>, <<"class_prediction_bias_init", "float">> >>
SSDHead_defaults ==
  [kernel_size |-> 3, use_depthwise |-> TRUE, activation |-> "relu6",
   use_sync_bn |-> FALSE, freeze_norm |-> FALSE, add_background_class |-> TRUE,
   class_prediction_bias_init |-> F(-46, 10)]

DetectionGenerator_fields ==
  << <<"pre_nms_top_k", "int">>, <<"pre_nms_score_threshold", "float">>,
     <<"nms_iou_threshold", "float">>, <<"max_num_detections", "int">>,
     <<"use_batched_nms", "bool">> >>
DetectionGenerator_defaults ==
  [pre_nms_top_k |-> 5000, pre_nms_score_threshold |-> F(5, 100),
   nms_iou_threshold |-> F(5, 10), max_num_detections |-> 100, use_batched_nms |-> FALSE]

SSDModel_fields ==
  << <<"num_classes", "int">>, <<"input_size", "ints">>, <<"min_level", "int">>,
     <<"num_layers", "int">>, <<"anchor", "rec">>, <<"backbone", "rec">>,
     <<"decoder", "rec">>, <<"head", "rec">>, <<"detection_generator", "rec">>,
     <<"norm_activation", "rec">> >>
SSDModel_defaults == [num_classes |-> 0, min_level |-> 4, num_layers |-> 6]
\* default_factory=list
SSDModel_input_size_factory == <<>>

SSDTask_fields ==
  << <<"model", "rec">>, <<"train_data", "rec">>, <<"validation_data", "rec">>,
     <<"losses", "rec">>, <<"init_checkpoint", "optstr">>,
     <<"init_checkpoint_modules", "str">>, <<"annotation_file", "optstr">>,
     <<"per_category_metrics", "bool">> >>
SSDTask_defaults ==
  [init_checkpoint |-> None, init_checkpoint_modules |-> "all",
   annotation_file |-> None, per_category_metrics |-> FALSE]

----------------------------------------------------------------------------
(* Records of other modules of the framework, with the fields ssd.py sets  *)

\* backbones.Backbone(type='mobiledet', mobiledet=backbones.MobileDet())
Backbone_fields == << <<"type", "optstr">>, <<"mobiledet", "rec">> >>
MobileDet_fields == << >>
\* decoders.Decoder(type='mrfm', mrfm=decoders.MRFM(fml_from_layer=..., fml_layer_depth=...))
Decoder_fields == << <<"type", "optstr">>, <<"mrfm", "rec">> >>
MRFM_fields == << <<"fml_from_layer", "strs">>, <<"fml_layer_depth", "ints">> >>
MRFM_fml_from_layer == <<"4", "5", "", "", "", "">>
MRFM_fml_layer_depth == <<-1, -1, 512, 256, 256, 128>>
\* common.NormActivation()
NormActivation_fields == << >>

\* cfg.ExperimentConfig(task=..., trainer=..., runtime=..., restrictions=[...])
ExperimentConfig_fields ==
  << <<"runtime", "rec">>, <<"task", "rec">>, <<"trainer", "rec">>,
     <<"restrictions", "strs">> >>
\* cfg.RuntimeConfig(mixed_precision_dtype='bfloat16')
RuntimeConfig_fields == << <<"mixed_precision_dtype", "optstr">> >>
\* cfg.TrainerConfig(train_steps=..., ..., optimizer_config=...)
TrainerConfig_fields ==
  << <<"train_steps", "int">>, <<"validation_steps", "int">>,
     <<"validation_interval", "int">>, <<"steps_per_loop", "int">>,
     <<"summary_interval", "int">>, <<"checkpoint_interval", "int">>,
     <<"optimizer_config", "rec">> >>
\* optimization.OptimizationConfig({'optimizer': ..., 'learning_rate': ..., 'warmup': ...})
OptimizationConfig_fields ==
  << <<"optimizer", "rec">>, <<"learning_rate", "rec">>, <<"warmup", "rec">> >>
OptimizerConfig_fields == << <<"type", "optstr">>, <<"sgd", "rec">> >>
SGDConfig_fields == << <<"momentum", "float">> >>
LrConfig_fields == << <<"type", "optstr">>, <<"stepwise", "rec">> >>
StepwiseLrConfig_fields == << <<"boundaries", "ints">>, <<"values", "floats">> >>
WarmupConfig_fields == << <<"type", "optstr">>, <<"linear", "rec">> >>
LinearWarmupConfig_fields ==
  << <<"warmup_steps", "int">>, <<"warmup_learning_rate", "float">> >>

----------------------------------------------------------------------------
(* Schema lookup *)

\* the eleven record types ssd.py declares
SchemaTypes ==
  {"TfExampleDecoder", "TfExampleDecoderLabelMap", "DataDecoder", "Parser",
   "DataConfig", "SSDAnchor", "Losses", "SSDHead", "DetectionGenerator",
   "SSDModel", "SSDTask"}

Fields(cls) ==
  CASE cls = "TfExampleDecoder" -> TfExampleDecoder_fields
    [] cls = "TfExampleDecoderLabelMap" -> TfExampleDecoderLabelMap_fields
    [] cls = "DataDecoder" -> DataDecoder_fields
    [] cls = "Parser" -> Parser_fields
    [] cls = "DataConfig" -> DataConfig_fields
    [] cls = "SSDAnchor" -> SSDAnchor_fields
    [] cls = "Losses" -> Losses_fields
    [] cls = "SSDHead" -> SSDHead_fields
    [] cls = "DetectionGenerator" -> DetectionGenerator_fields
    [] cls = "SSDModel" -> SSDModel_fields
    [] cls = "SSDTask" -> SSDTask_fields
    [] cls = "Backbone" -> Backbone_fields
    [] cls = "MobileDet" -> MobileDet_fields
    [] cls = "Decoder" -> Decoder_fields
    [] cls = "MRFM" -> MRFM_fields
    [] cls = "NormActivation" -> NormActivation_fields
    [] cls = "ExperimentConfig" -> ExperimentConfig_fields
    [] cls = "RuntimeConfig" -> RuntimeConfig_fields
    [] cls = "TrainerConfig" -> TrainerConfig_fields
    [] cls = "OptimizationConfig" -> OptimizationConfig_fields
    [] cls = "OptimizerConfig" -> OptimizerConfig_fields
    [] cls = "SGDConfig" -> SGDConfig_fields
    [] cls = "LrConfig" -> LrConfig_fields
    [] cls = "StepwiseLrConfig" -> StepwiseLrConfig_fields
    [] cls = "WarmupConfig" -> WarmupConfig_fields
    [] cls = "LinearWarmupConfig" -> LinearWarmupConfig_fields

Defaults(cls) ==
  CASE cls = "TfExampleDecoder" -> TfExampleDecoder_defaults
    [] cls = "TfExampleDecoderLabelMap" -> TfExampleDecoderLabelMap_defaults
    [] cls = "DataDecoder" -> DataDecoder_defaults
    [] cls = "Parser" -> Parser_defaults
    [] cls = "DataConfig" -> DataConfig_defaults
    [] cls = "SSDAnchor" -> SSDAnchor_defaults
    [] cls = "Losses" -> Losses_defaults
    [] cls = "SSDHead" -> SSDHead_defaults
    [] cls = "DetectionGenerator" -> DetectionGenerator_defaults
    [] cls = "SSDModel" -> SSDModel_defaults
    [] cls = "SSDTask" -> SSDTask_defaults

ListTypes == {"floats", "ints", "strs"}
RefTypes == ListTypes \cup {"rec"}

\* the record types of the other modules that ssd.py composes
ExternalTypes ==
  {"Backbone", "MobileDet", "Decoder", "MRFM", "NormActivation", "ExperimentConfig",
   "RuntimeConfig", "TrainerConfig", "OptimizationConfig", "OptimizerConfig",
   "SGDConfig", "LrConfig", "StepwiseLrConfig", "WarmupConfig", "LinearWarmupConfig"}
AllTypes == SchemaTypes \cup ExternalTypes

\* name -> annotation, per record type
Annotations ==
  [cls \in AllTypes |->
     [n \in {Fields(cls)[i][1] : i \in 1..Len(Fields(cls))} |->
        Fields(cls)[CHOOSE i \in 1..Len(Fields(cls)) : Fields(cls)[i][1] = n][2]]]
TypeOf(cls, name) == Annotations[cls][name]
FieldNames(cls) == DOMAIN Annotations[cls]

\* the fields that hold references, scalars and lists, per record type
RefNamesOf == [cls \in AllTypes |-> {n \in FieldNames(cls) : TypeOf(cls, n) \in RefTypes}]
ScalarNamesOf == [cls \in AllTypes |-> {n \in FieldNames(cls) : TypeOf(cls, n) \notin RefTypes}]
ListNamesOf == [cls \in AllTypes |-> {n \in FieldNames(cls) : TypeOf(cls, n) \in ListTypes}]
RefNames(cls) == RefNamesOf[cls]
ScalarNames(cls) == ScalarNamesOf[cls]
ListNames(cls) == ListNamesOf[cls]

\* the reference fields of a record type, in declaration order
RefSeqOf == [cls \in AllTypes |-> SelectSeq(Fields(cls), LAMBDA e : e[2] \in RefTypes)]
RefSeq(cls) == RefSeqOf[cls]

----------------------------------------------------------------------------
(* The heap.  A configuration is written as a tree: a record or list node  *)
(* [cls, f] whose reference fields hold subtrees, NoneRef for None, and    *)
(* Ref(id) for a reference to an object that already exists.  Store puts a *)
(* tree on the heap, one new object per node, children before their parent *)
(* (Python evaluates the arguments of a call before the call); Value reads *)
(* a tree back.                                                            *)

NoneRef == [cls |-> "None", f |-> <<>>]
Ref(id) == [cls |-> "ref", f |-> id]

\* a list object
List(elems) == [cls |-> "list", f |-> elems]

\* the identity a tree's root gets when its objects `objs` are stored after
\* `base` objects
IdOf(t, base, objs) ==
  IF t.cls = "None" THEN 0
  ELSE IF t.cls = "ref" THEN t.f
  ELSE base + Len(objs)

\* the objects of a tree, in allocation order; FlattenRefs: the first k - 1
\* reference fields are done, their objects are acc and their identities in f
RECURSIVE Flatten(_, _)
RECURSIVE FlattenRefs(_, _, _, _, _)
Flatten(t, base) ==
  IF t.cls \in {"None", "ref"} THEN <<>>
  ELSE IF t.cls = "list" THEN <<t>>
  ELSE FlattenRefs(t, base, 1, <<>>, t.f)
FlattenRefs(t, base, k, acc, f) ==
  IF k > Len(RefSeq(t.cls)) THEN Append(acc, [cls |-> t.cls, f |-> f])
  ELSE LET n == RefSeq(t.cls)[k][1]
           c == Flatten(t.f[n], base + Len(acc))
       IN  FlattenRefs(t, base, k + 1, acc \o c,
                       [f EXCEPT ![n] = IdOf(t.f[n], base + Len(acc), c)])

\* the identity of the root of a tree stored on heap h
RootOf(h, t) == IdOf(t, Len(h), Flatten(t, Len(h)))

Store(h, t) == h \o Flatten(t, Len(h))

\* the set of objects reachable from a reference
RECURSIVE Reach(_, _)
Reach(h, id) ==
  IF id = 0 THEN {}
  ELSE LET o == h[id]
       IN  IF o.cls = "list" THEN {id}
           ELSE {id} \cup UNION {Reach(h, o.f[n]) : n \in RefNames(o.cls)}

\* the value of a reference: the object with every reference replaced by
\* the value it refers to (what == compares on configuration records)
RECURSIVE Value(_, _)
Value(h, id) ==
  IF id = 0 THEN NoneRef
  ELSE LET o == h[id]
       IN  IF o.cls = "list" THEN o
           ELSE [cls |-> o.cls,
                 f |-> [n \in DOMAIN o.f |->
                          IF n \in RefNames(o.cls) THEN Value(h, o.f[n]) ELSE o.f[n]]]

----------------------------------------------------------------------------
(* Construction of records *)

Min(S) == CHOOSE x \in S : \A y \in S : x <= y

\* hyperparams.Config: a field left at a class-level default instance gets
\* its own deep copy of that instance, lists included
FreshDefaultShared(h, id) == Ref(id)
FreshDefault(h, id) == Value(h, id)

\* the literal a default_factory returns
FactoryLiteral(cls, name) ==
  CASE cls = "SSDAnchor" /\ name = "aspect_ratios" -> SSDAnchor_aspect_ratios_factory
    [] cls = "SSDModel" /\ name = "input_size" -> SSDModel_input_size_factory

\* dataclasses.field(default_factory=...): called once per construction
DefaultFactoryShared(h, cls, name) ==
  LET prior == {i \in 1..Len(h) : h[i].cls = cls}
  IN  IF prior = {} THEN List(FactoryLiteral(cls, name))
      ELSE Ref(h[Min(prior)].f[name])
DefaultFactory(h, cls, name) == List(FactoryLiteral(cls, name))

\* the default of a field the caller did not pass
DefaultValue(h, p, cls, name) ==
  IF name \in ScalarNames(cls) THEN Defaults(cls)[name]
  ELSE IF cls = "SSDAnchor" /\ name = "scales"
       THEN (IF SSDAnchor_scales_default = 0 THEN NoneRef ELSE Ref(SSDAnchor_scales_default))
  ELSE IF name \in ListNames(cls) THEN DefaultFactory(h, cls, name)
  ELSE FreshDefault(h, p[<<cls, name>>])

\* cls(**ov) for a record type of ssd.py, the dataclass-generated __init__:
\* each field is the keyword argument if passed, else its default
New(h, p, cls, ov) ==
  [cls |-> cls,
   f |-> [n \in FieldNames(cls) |->
            IF n \in DOMAIN ov THEN ov[n] ELSE DefaultValue(h, p, cls, n)]]

\* cls(**f) for a record type of another module, every modelled field passed
Make(cls, f) == [cls |-> cls, f |-> f]

\* os.path.join on a POSIX system
PathJoin(a, b) == a \o "/" \o b

----------------------------------------------------------------------------
(* The factories *)

\* restrictions=[...], a list literal evaluated by each call
RestrictionsShared(h) ==
  LET lit == List(<<"task.train_data.is_training != None",
                    "task.validation_data.is_training != None">>)
      prior == {i \in 1..Len(h) : h[i].cls = "ExperimentConfig"}
  IN  IF prior = {} THEN lit ELSE Ref(h[Min(prior)].f.restrictions)
Restrictions(h) ==
  List(<<"task.train_data.is_training != None",
         "task.validation_data.is_training != None">>)

\* def retinanet(): the arguments left to cfg.ExperimentConfig's own
\* defaults (runtime, trainer) are not set by this file and stay None here
retinanet(h, p) ==
  Make("ExperimentConfig",
       [runtime |-> NoneRef,
        task |-> New(h, p, "SSDTask", <<>>),
        trainer |-> NoneRef,
        restrictions |-> Restrictions(h)])

COCO_INPUT_PATH_BASE == "coco"
COCO_TRAIN_EXAMPLES == 118287
COCO_VAL_EXAMPLES == 5000

train_batch_size == 256
eval_batch_size == 8
steps_per_epoch_ceil == (COCO_TRAIN_EXAMPLES + train_batch_size - 1) \div train_batch_size
steps_per_epoch == COCO_TRAIN_EXAMPLES \div train_batch_size

\* train_steps=72 * steps_per_epoch
train_steps_by_examples == (72 * COCO_TRAIN_EXAMPLES) \div train_batch_size
train_steps == 72 * steps_per_epoch
\* validation_steps=COCO_VAL_EXAMPLES // eval_batch_size
validation_steps == COCO_VAL_EXAMPLES \div eval_batch_size
\* 'boundaries': [57 * steps_per_epoch, 67 * steps_per_epoch]
lr_boundaries_swapped == <<67 * steps_per_epoch, 57 * steps_per_epoch>>
lr_boundaries == <<57 * steps_per_epoch, 67 * steps_per_epoch>>
\* 'values': [0.32 * train_batch_size / 256.0, ...]
lr_values ==
  << FDiv(FMul(F(32, 100), ToFloat(train_batch_size)), F(2560, 10)),
     FDiv(FMul(F(32, 1000), ToFloat(train_batch_size)), F(2560, 10)),
     FDiv(FMul(F(32, 10000), ToFloat(train_batch_size)), F(2560, 10)) >>
\* 'warmup_steps': 500
warmup_steps == 500

\* optimization.OptimizationConfig({...}): the nested mapping, one record
\* per mapping
optimizer_config ==
  Make("OptimizationConfig",
       [optimizer |->
          Make("OptimizerConfig",
               [type |-> "sgd", sgd |-> Make("SGDConfig", [momentum |-> F(9, 10)])]),
        learning_rate |->
          Make("LrConfig",
               [type |-> "stepwise",
                stepwise |-> Make("StepwiseLrConfig",
                                  [boundaries |-> List(lr_boundaries),
                                   values |-> List(lr_values)])]),
        warmup |->
          Make("WarmupConfig",
               [type |-> "linear",
                linear |-> Make("LinearWarmupConfig",
                                [warmup_steps |-> warmup_steps,
                                 warmup_learning_rate |-> F(67, 10000)])])])

\* def ssd_mobiledet_coco()
ssd_mobiledet_coco(h, p) ==
  Make("ExperimentConfig",
       [runtime |-> Make("RuntimeConfig", [mixed_precision_dtype |-> "bfloat16"]),
        task |->
          New(h, p, "SSDTask",
              [init_checkpoint |->
                 "gs://cloud-tpu-checkpoints/vision-2.0/resnet50_imagenet/ckpt-28080",
               init_checkpoint_modules |-> "backbone",
               annotation_file |->
                 PathJoin(COCO_INPUT_PATH_BASE, "instances_val2017.json"),
               model |->
                 New(h, p, "SSDModel",
                     [num_classes |-> 91, input_size |-> List(<<640, 640, 3>>),
                      min_level |-> 4, num_layers |-> 6]),
               losses |-> New(h, p, "Losses", [l2_weight_decay |-> F(1, 10000)]),
               train_data |->
                 New(h, p, "DataConfig",
                     [input_path |-> PathJoin(COCO_INPUT_PATH_BASE, "train*"),
                      is_training |-> TRUE,
                      global_batch_size |-> train_batch_size,
                      parser |->
                        New(h, p, "Parser",
                            [aug_rand_hflip |-> TRUE, aug_scale_min |-> F(5, 10),
                             aug_scale_max |-> F(20, 10)])]),
               validation_data |->
                 New(h, p, "DataConfig",
                     [input_path |-> PathJoin(COCO_INPUT_PATH_BASE, "val*"),
                      is_training |-> FALSE,
                      global_batch_size |-> eval_batch_size])]),
        trainer |->
          Make("TrainerConfig",
               [train_steps |-> train_steps,
                validation_steps |-> validation_steps,
                validation_interval |-> steps_per_epoch,
                steps_per_loop |-> steps_per_epoch,
                summary_interval |-> steps_per_epoch,
                checkpoint_interval |-> steps_per_epoch,
                optimizer_config |-> optimizer_config]),
        restrictions |-> Restrictions(h)])

\* calling the factory the registry holds under a name
Invoke(fn, h, p) ==
  CASE fn = "retinanet" -> retinanet(h, p)
    [] fn = "ssd_mobiledet_coco" -> ssd_mobiledet_coco(h, p)

----------------------------------------------------------------------------
(* Loading ssd.py: the class statements that evaluate default instances,   *)
(* then the two registration decorators                                    *)

Init ==
  /\ pc = "DataDecoder"
  /\ heap = <<>>
  /\ proto = <<>>
  /\ registry = <<>>
  /\ inserts = <<>>
  /\ results = <<>>
  /\ muts = 0

\* class DataDecoder: simple_decoder = TfExampleDecoder(),
\* label_map_decoder = TfExampleDecoderLabelMap()
Load_DataDecoder ==
  /\ pc = "DataDecoder"
  /\ LET a == Store(heap, New(heap, proto, "TfExampleDecoder", <<>>))
         b == Store(a, New(a, proto, "TfExampleDecoderLabelMap", <<>>))
     IN  /\ heap' = b
         /\ proto' = (<<"DataDecoder", "simple_decoder">> :> Len(a))
                       @@ (<<"DataDecoder", "label_map_decoder">> :> Len(b)) @@ proto
  /\ pc' = "DataConfig"
  /\ UNCHANGED <<registry, inserts, results, muts>>

\* class DataConfig: decoder = DataDecoder(), parser = Parser()
Load_DataConfig ==
  /\ pc = "DataConfig"
  /\ LET a == Store(heap, New(heap, proto, "DataDecoder", <<>>))
         b == Store(a, New(a, proto, "Parser", <<>>))
     IN  /\ heap' = b
         /\ proto' = (<<"DataConfig", "decoder">> :> Len(a))
                       @@ (<<"DataConfig", "parser">> :> Len(b)) @@ proto
  /\ pc' = "SSDModel"
  /\ UNCHANGED <<registry, inserts, results, muts>>

\* class SSDModel: anchor, backbone, decoder, head, detection_generator,
\* norm_activation
Load_SSDModel ==
  /\ pc = "SSDModel"
  /\ LET anchor == Store(heap, New(heap, proto, "SSDAnchor", <<>>))
         bb == Store(anchor, Make("Backbone",
                       [type |-> "mobiledet", mobiledet |-> Make("MobileDet", <<>>)]))
         dec == Store(bb, Make("Decoder",
                       [type |-> "mrfm",
                        mrfm |-> Make("MRFM",
                                      [fml_from_layer |-> List(MRFM_fml_from_layer),
                                       fml_layer_depth |-> List(MRFM_fml_layer_depth)])]))
         head == Store(dec, New(dec, proto, "SSDHead", <<>>))
         gen == Store(head, New(head, proto, "DetectionGenerator", <<>>))
         na == Store(gen, Make("NormActivation", <<>>))
     IN  /\ heap' = na
         /\ proto' = (<<"SSDModel", "anchor">> :> Len(anchor))
                       @@ (<<"SSDModel", "backbone">> :> Len(bb))
                       @@ (<<"SSDModel", "decoder">> :> Len(dec))
                       @@ (<<"SSDModel", "head">> :> Len(head))
                       @@ (<<"SSDModel", "detection_generator">> :> Len(gen))
                       @@ (<<"SSDModel", "norm_activation">> :> Len(na)) @@ proto
  /\ pc' = "SSDTask"
  /\ UNCHANGED <<registry, inserts, results, muts>>

\* train_data: DataConfig = DataConfig(is_training=True)
SSDTask_train_data_args_unset == [is_training |-> FALSE]
SSDTask_train_data_args == [is_training |-> TRUE]
\* validation_data: DataConfig = DataConfig(is_training=False)
SSDTask_validation_data_args == [is_training |-> FALSE]

\* class SSDTask: model = SSDModel(), train_data = DataConfig(is_training=True),
\* validation_data = DataConfig(is_training=False), losses = Losses()
Load_SSDTask ==
  /\ pc = "SSDTask"
  /\ LET model == Store(heap, New(heap, proto, "SSDModel", <<>>))
         train == Store(model, New(model, proto, "DataConfig", SSDTask_train_data_args))
         val == Store(train, New(train, proto, "DataConfig", SSDTask_validation_data_args))
         losses == Store(val, New(val, proto, "Losses", <<>>))
     IN  /\ heap' = losses
         /\ proto' = (<<"SSDTask", "model">> :> Len(model))
                       @@ (<<"SSDTask", "train_data">> :> Len(train))
                       @@ (<<"SSDTask", "validation_data">> :> Len(val))
                       @@ (<<"SSDTask", "losses">> :> Len(losses)) @@ proto
  /\ pc' = "retinanet"
  /\ UNCHANGED <<registry, inserts, results, muts>>

\* exp_factory.register_config_factory(key)(fn): the registry maps the key
\* to the factory
Register(key, fn) ==
  /\ registry' = (key :> fn) @@ registry
  /\ inserts' = (key :> (IF key \in DOMAIN inserts THEN inserts[key] + 1 ELSE 1)) @@ inserts

\* the keys of the two decorators
Key_retinanet == "ssd"
Key_ssd_mobiledet_coco_pasted == "ssd"
Key_ssd_mobiledet_coco == "ssd_mobiledet_coco"

\* @exp_factory.register_config_factory('ssd')
Register_retinanet ==
  /\ pc = "retinanet"
  /\ Register(Key_retinanet, "retinanet")
  /\ pc' = "ssd_mobiledet_coco"
  /\ UNCHANGED <<heap, proto, results, muts>>

\* @exp_factory.register_config_factory('ssd_mobiledet_coco')
Register_ssd_mobiledet_coco ==
  /\ pc = "ssd_mobiledet_coco"
  /\ Register(Key_ssd_mobiledet_coco, "ssd_mobiledet_coco")
  /\ pc' = "loaded"
  /\ UNCHANGED <<heap, proto, results, muts>>

Load ==
  \/ Load_DataDecoder
  \/ Load_DataConfig
  \/ Load_SSDModel
  \/ Load_SSDTask
  \/ Register_retinanet
  \/ Register_ssd_mobiledet_coco

----------------------------------------------------------------------------
(* Callers *)

\* what a caller was handed: who made it, its root, its value when handed
\* over, and the keyword arguments it was constructed with
Handed(by, h, root, ov) == [by |-> by, root |-> root, orig |-> Value(h, root), ov |-> ov]

\* exp_factory.get_exp_config(key): look the factory up and call it
Call(key) ==
  /\ pc = "loaded"
  /\ key \in DOMAIN registry
  /\ Len(results) < MaxResults
  /\ LET t == Invoke(registry[key], heap, proto)
         h == Store(heap, t)
     IN  /\ heap' = h
         /\ results' = Append(results, Handed(key, h, RootOf(heap, t), <<>>))
  /\ UNCHANGED <<pc, proto, registry, inserts, muts>>

\* every object handed out so far was made the same way
SameKind(by) == \A i \in 1..Len(results) : results[i].by = by

CallSame(key) == SameKind(key) /\ Call(key)

\* the keyword arguments callers construct each record type with
Overrides(cls) ==
  CASE cls = "TfExampleDecoder" -> << <<>>, [regenerate_source_id |-> TRUE] >>
    [] cls = "TfExampleDecoderLabelMap" -> << <<>>, [label_map |-> "labels.csv"] >>
    [] cls = "DataDecoder" ->
         << <<>>, [type |-> "label_map_decoder"], [type |-> None] >>
    [] cls = "Parser" -> << <<>>, [aug_rand_hflip |-> TRUE, aug_scale_min |-> F(5, 10)] >>
    [] cls = "DataConfig" -> << <<>>, [is_training |-> TRUE, global_batch_size |-> 8] >>
    [] cls = "SSDAnchor" -> << <<>>, [anchor_size |-> F(30, 10)] >>
    [] cls = "Losses" -> << <<>>, [l2_weight_decay |-> F(1, 10000)] >>
    [] cls = "SSDHead" -> << <<>>, [use_depthwise |-> FALSE] >>
    [] cls = "DetectionGenerator" -> << <<>>, [use_batched_nms |-> TRUE] >>
    [] cls = "SSDModel" -> << <<>>, [num_classes |-> 91] >>
    [] cls = "SSDTask" -> << <<>>, [init_checkpoint_modules |-> "backbone"] >>

\* cls(**ov) by a caller
Construct(cls, ov) ==
  /\ pc = "loaded"
  /\ Len(results) < MaxResults
  /\ SameKind(cls)
  /\ LET t == New(heap, proto, cls, ov)
         h == Store(heap, t)
     IN  /\ heap' = h
         /\ results' = Append(results, Handed(cls, h, RootOf(heap, t), ov))
  /\ UNCHANGED <<pc, proto, registry, inserts, muts>>

\* the records a caller can reach from what it was handed
Held == UNION {Reach(heap, results[i].root) : i \in 1..Len(results)}
HeldRecords == {i \in Held : heap[i].cls # "list"}

\* another value of the field's type
Alt(type, v) ==
  CASE type = "bool" -> ~v
    [] type = "int" -> v + 1
    [] type = "float" -> F(v[1] + v[2], v[2])
    [] type = "str" -> "mutated"
    [] type = "optstr" -> IF v = None THEN "mutated" ELSE None

\* an element of the list's element type
Elem(type) ==
  CASE type = "floats" -> F(7, 1)
    [] type = "ints" -> 7
    [] type = "strs" -> "x"

\* the scalar field a caller writes in a record: the first one declared
\* stands for any of them (a write to any field of a shared record shows
\* through every reference to the record)
Written(cls) ==
  LET S == SelectSeq(Fields(cls), LAMBDA e : e[2] \notin RefTypes)
  IN  IF Len(S) = 0 THEN {} ELSE {S[1][1]}
WrittenOf == [cls \in AllTypes |-> Written(cls)]

\* obj.name = value, on a scalar field
SetScalar(id, n) ==
  /\ muts < MaxMutations
  /\ heap' = [heap EXCEPT ![id].f[n] = Alt(TypeOf(heap[id].cls, n), @)]
  /\ muts' = muts + 1
  /\ UNCHANGED <<pc, proto, registry, inserts, results>>

\* obj.name.append(x)
ListAppend(id, n) ==
  /\ muts < MaxMutations
  /\ heap[id].f[n] # 0
  /\ heap' = [heap EXCEPT ![heap[id].f[n]].f = Append(@, Elem(TypeOf(heap[id].cls, n)))]
  /\ muts' = muts + 1
  /\ UNCHANGED <<pc, proto, registry, inserts, results>>

\* obj.name.pop()
ListPop(id, n) ==
  /\ muts < MaxMutations
  /\ heap[id].f[n] # 0
  /\ Len(heap[heap[id].f[n]].f) > 0
  /\ heap' = [heap EXCEPT ![heap[id].f[n]].f = SubSeq(@, 1, Len(@) - 1)]
  /\ muts' = muts + 1
  /\ UNCHANGED <<pc, proto, registry, inserts, results>>

\* obj.name[0] = x
ListSetItem(id, n) ==
  /\ muts < MaxMutations
  /\ heap[id].f[n] # 0
  /\ Len(heap[heap[id].f[n]].f) > 0
  /\ heap' = [heap EXCEPT ![heap[id].f[n]].f[1] = Elem(TypeOf(heap[id].cls, n))]
  /\ muts' = muts + 1
  /\ UNCHANGED <<pc, proto, registry, inserts, results>>

\* obj.name = [x]: the field is bound to a new list
SetList(id, n) ==
  /\ muts < MaxMutations
  /\ LET h == Store(heap, List(<<Elem(TypeOf(heap[id].cls, n))>>))
     IN  heap' = [h EXCEPT ![id].f[n] = Len(h)]
  /\ muts' = muts + 1
  /\ UNCHANGED <<pc, proto, registry, inserts, results>>

\* the list fields callers pop from, assign into and rebind: those of the
\* record types of ssd.py; lists of the composed records are appended to
OwnListsOf == [cls \in AllTypes |-> IF cls \in SchemaTypes THEN ListNames(cls) ELSE {}]

Mutate ==
  \/ muts < MaxMutations
       /\ \E id \in HeldRecords : \E n \in WrittenOf[heap[id].cls] : SetScalar(id, n)
  \/ muts < MaxMutations
       /\ \E id \in HeldRecords : \E n \in ListNames(heap[id].cls) : ListAppend(id, n)
  \/ muts < MaxMutations
       /\ \E id \in HeldRecords : \E n \in OwnListsOf[heap[id].cls] : ListPop(id, n)
  \/ muts < MaxMutations
       /\ \E id \in HeldRecords : \E n \in OwnListsOf[heap[id].cls] : ListSetItem(id, n)
  \/ muts < MaxMutations
       /\ \E id \in HeldRecords : \E n \in OwnListsOf[heap[id].cls] : SetList(id, n)

----------------------------------------------------------------------------
(* Specifications *)

\* callers of the registry
Next ==
  \/ Load
  \/ \E key \in DOMAIN registry : Call(key)
  \/ Mutate

Spec == Init /\ [][Next]_vars

\* callers that construct records of one type, or call one factory
NextSchema ==
  \/ Load
  \/ \E key \in DOMAIN registry : CallSame(key)
  \/ \E cls \in SchemaTypes : \E i \in 1..Len(Overrides(cls)) : Construct(cls, Overrides(cls)[i])
  \/ Mutate

SpecSchema == Init /\ [][NextSchema]_vars

----------------------------------------------------------------------------
(* Properties *)

Pairs == {<<i, j>> \in (1..Len(results)) \X (1..Len(results)) : i < j}
MadeBy(by) == {i \in 1..Len(results) : results[i].by = by}
Now(i) == Value(heap, results[i].root)
\* the results whose value is no longer the one handed over
Changed == {i \in 1..Len(results) : Now(i) # results[i].orig}

\* C1: once ssd.py is loaded the registry maps exactly the keys 'ssd' and
\* 'ssd_mobiledet_coco', each inserted once, to the factories retinanet and
\* ssd_mobiledet_coco, and no lookup, invocation or caller mutation changes
\* that; before the load completes it holds no other key.
C1_RegistryFixed ==
  /\ DOMAIN registry \subseteq {"ssd", "ssd_mobiledet_coco"}
  /\ pc = "loaded" =>
       /\ DOMAIN registry = {"ssd", "ssd_mobiledet_coco"}
       /\ registry["ssd"] = "retinanet"
       /\ registry["ssd_mobiledet_coco"] = "ssd_mobiledet_coco"
       /\ \A k \in DOMAIN registry : inserts[k] = 1

\* both factories were looked up and invoked, and a caller mutated a result
C1_Witness ==
  /\ MadeBy("ssd") # {} /\ MadeBy("ssd_mobiledet_coco") # {}
  /\ muts > 0

\* C2: two results of factory invocations share no object, at any depth,
\* and two results of the same key had equal values when they were handed
\* over, whatever callers did to earlier results in between.
C2_FreshPerCall ==
  \A q \in Pairs :
    /\ Reach(heap, results[q[1]].root) \cap Reach(heap, results[q[2]].root) = {}
    /\ results[q[1]].by = results[q[2]].by => results[q[1]].orig = results[q[2]].orig

\* a caller rebound a list field of one result (the new list was allocated
\* after that result), and the same factory was invoked again after that
C2_Witness ==
  \E q \in Pairs :
    /\ results[q[1]].by = results[q[2]].by
    /\ \E l \in Reach(heap, results[q[1]].root) :
         /\ l > results[q[1]].root
         /\ \A o \in Reach(heap, results[q[2]].root) : o > l

\* a restriction string, evaluated on a configuration
RestrictionHolds(cfg, r) ==
  CASE r = "task.train_data.is_training != None" ->
         cfg.f.task.f.train_data.f.is_training \in BOOLEAN
    [] r = "task.validation_data.is_training != None" ->
         cfg.f.task.f.validation_data.f.is_training \in BOOLEAN
    [] OTHER -> FALSE

\* C3: what retinanet() returns has a default SSDTask as its task, with
\* train_data.is_training = True and validation_data.is_training = False,
\* its restrictions are exactly the two strings, in order, and both hold.
C3_Retinanet ==
  \A i \in MadeBy("ssd") :
    LET c == results[i].orig
    IN  /\ c.cls = "ExperimentConfig"
        /\ c.f.task.cls = "SSDTask"
        /\ c.f.task.f.train_data.f.is_training = TRUE
        /\ c.f.task.f.validation_data.f.is_training = FALSE
        /\ c.f.task.f.init_checkpoint = None
        /\ c.f.task.f.init_checkpoint_modules = "all"
        /\ c.f.task.f.annotation_file = None
        /\ c.f.task.f.per_category_metrics = FALSE
        /\ c.f.task.f.model.f.num_classes = 0
        /\ c.f.task.f.model.f.input_size.f = <<>>
        /\ c.f.task.f.train_data.f.global_batch_size = 0
        /\ c.f.task.f.losses.f.box_loss_weight = 50
        /\ c.f.restrictions.f = <<"task.train_data.is_training != None",
                                  "task.validation_data.is_training != None">>
        /\ \A k \in 1..Len(c.f.restrictions.f) : RestrictionHolds(c, c.f.restrictions.f[k])

C3_Witness == MadeBy("ssd") # {}

\* the trainer and the stepwise schedule of a configuration
TrainerOf(c) == c.f.trainer.f
StepwiseOf(c) == c.f.trainer.f.optimizer_config.f.learning_rate.f.stepwise.f
WarmupOf(c) == c.f.trainer.f.optimizer_config.f.warmup.f.linear.f

\* C4 as stated: steps_per_epoch = 118287 // 256 = 461, train_steps =
\* 72 * 461 = 33192, validation_steps = 5000 // 8 = 625, boundaries
\* [26277, 30887], and the batch sizes 256 and 8.
C4_Original ==
  /\ COCO_TRAIN_EXAMPLES = 118287 /\ COCO_VAL_EXAMPLES = 5000
  /\ \A i \in MadeBy("ssd_mobiledet_coco") :
       LET c == results[i].orig
       IN  /\ TrainerOf(c).validation_interval = 461
           /\ TrainerOf(c).train_steps = 33192
           /\ TrainerOf(c).validation_steps = 625
           /\ StepwiseOf(c).boundaries.f = <<26277, 30887>>
           /\ c.f.task.f.train_data.f.global_batch_size = 256
           /\ c.f.task.f.validation_data.f.global_batch_size = 8

\* C4, amended: floor division gives steps_per_epoch = 118287 // 256 = 462
\* (256 * 462 = 118272), so train_steps = 72 * 462 = 33264 and the
\* boundaries are [57 * 462, 67 * 462] = [26334, 30954]; validation_steps =
\* 5000 // 8 = 625 and the batch sizes are 256 and 8.
C4_Schedule ==
  /\ COCO_TRAIN_EXAMPLES = 118287 /\ COCO_VAL_EXAMPLES = 5000
  /\ \A i \in MadeBy("ssd_mobiledet_coco") :
       LET c == results[i].orig
       IN  /\ TrainerOf(c).validation_interval = 462
           /\ TrainerOf(c).train_steps = 33264
           /\ TrainerOf(c).validation_steps = 625
           /\ StepwiseOf(c).boundaries.f = <<26334, 30954>>
           /\ c.f.task.f.train_data.f.global_batch_size = 256
           /\ c.f.task.f.validation_data.f.global_batch_size = 8

C4_Witness == MadeBy("ssd_mobiledet_coco") # {} /\ muts = 0

\* C9 as stated: train steps, warmup steps and every boundary are multiples
\* of steps_per_epoch, and the four intervals equal steps_per_epoch.
C9_Original ==
  \A i \in MadeBy("ssd_mobiledet_coco") :
    LET c == results[i].orig
        spe == 118287 \div 256
    IN  /\ TrainerOf(c).train_steps % spe = 0
        /\ WarmupOf(c).warmup_steps % spe = 0
        /\ \A k \in 1..Len(StepwiseOf(c).boundaries.f) :
             StepwiseOf(c).boundaries.f[k] % spe = 0
        /\ TrainerOf(c).validation_interval = spe
        /\ TrainerOf(c).steps_per_loop = spe
        /\ TrainerOf(c).summary_interval = spe
        /\ TrainerOf(c).checkpoint_interval = spe

\* C9, amended: train steps and every boundary are multiples of
\* steps_per_epoch (72, 57 and 67 times), the four intervals equal
\* steps_per_epoch, and warmup_steps is the literal 500, which is not a
\* multiple of steps_per_epoch.
C9_Multiples ==
  \A i \in MadeBy("ssd_mobiledet_coco") :
    LET c == results[i].orig
        spe == 118287 \div 256
    IN  /\ TrainerOf(c).train_steps = 72 * spe
        /\ StepwiseOf(c).boundaries.f = <<57 * spe, 67 * spe>>
        /\ WarmupOf(c).warmup_steps = 500
        /\ WarmupOf(c).warmup_steps % spe # 0
        /\ TrainerOf(c).validation_interval = spe
        /\ TrainerOf(c).steps_per_loop = spe
        /\ TrainerOf(c).summary_interval = spe
        /\ TrainerOf(c).checkpoint_interval = spe

C9_Witness == MadeBy("ssd_mobiledet_coco") # {} /\ muts > 0

\* C10: the schedule is well-formed: 3 values and 2 boundaries, boundaries
\* strictly increasing, each above warmup_steps (500) and below train_steps,
\* values 0.32, 0.032, 0.0032 (scaled by 256/256), strictly decreasing.
C10_WellFormed ==
  \A i \in MadeBy("ssd_mobiledet_coco") :
    LET c == results[i].orig
        b == StepwiseOf(c).boundaries.f
        v == StepwiseOf(c).values.f
    IN  /\ Len(b) = 2 /\ Len(v) = 3
        /\ b[1] < b[2]
        /\ WarmupOf(c).warmup_steps = 500
        /\ \A k \in 1..Len(b) :
             WarmupOf(c).warmup_steps < b[k] /\ b[k] < TrainerOf(c).train_steps
        /\ v = <<F(32, 100), F(32, 1000), F(32, 10000)>>
        /\ FLess(v[2], v[1]) /\ FLess(v[3], v[2])

C10_Witness == Cardinality(MadeBy("ssd_mobiledet_coco")) > 1

\* the class-level default instances and everything they reach
ProtoObjects == UNION {Reach(heap, proto[k]) : k \in DOMAIN proto}

\* C5: two records constructed by callers, with or without overrides, share
\* no object with each other or with a class-level default instance, so a
\* write through one changes the value of that one only.
C5_NoSharedNested ==
  /\ \A i \in 1..Len(results) : Reach(heap, results[i].root) \cap ProtoObjects = {}
  /\ \A q \in Pairs :
       Reach(heap, results[q[1]].root) \cap Reach(heap, results[q[2]].root) = {}
  /\ Cardinality(Changed) <= muts

\* two SSDTask records; a nested record of one, left at its default, was
\* written to
C5_Witness ==
  \E q \in Pairs :
    /\ results[q[1]].by = "SSDTask" /\ results[q[2]].by = "SSDTask"
    /\ Now(q[1]).f.train_data.f.parser # results[q[1]].orig.f.train_data.f.parser
    /\ Now(q[2]) = results[q[2]].orig

\* the list fields of a record handed to a caller, as they are now
ListsNow(i) ==
  [n \in ListNames(results[i].by) |-> Value(heap, heap[results[i].root].f[n])]
ListsThen(i) == [n \in ListNames(results[i].by) |-> results[i].orig.f[n]]
WithLists == MadeBy("SSDAnchor") \cup MadeBy("SSDModel")

\* C6: each SSDAnchor and SSDModel gets its own lists: no two records hold
\* the same list object, a record constructed without arguments starts with
\* aspect_ratios [1, 2, 3, 1/2, 1/3], scales None and input_size [], and a
\* list mutation through one record changes the lists of that record only.
C6_OwnLists ==
  /\ \A i \in WithLists : \A j \in WithLists : \A n \in ListNames(results[i].by) :
       i # j => \/ heap[results[i].root].f[n] = 0
                \/ heap[results[i].root].f[n] # heap[results[j].root].f[n]
  /\ \A i \in MadeBy("SSDAnchor") :
       DOMAIN results[i].ov = {} =>
         /\ results[i].orig.f.aspect_ratios.f
              = <<F(1, 1), F(2, 1), F(3, 1), F(1, 2), F(1, 3)>>
         /\ results[i].orig.f.scales.cls = "None"
  /\ \A i \in MadeBy("SSDModel") :
       DOMAIN results[i].ov = {} => results[i].orig.f.input_size.f = <<>>
  /\ Cardinality({i \in WithLists : ListsNow(i) # ListsThen(i)}) <= muts

\* two SSDAnchor() records; the aspect_ratios of one were mutated, the other
\* still holds the default
C6_Witness ==
  \E i \in MadeBy("SSDAnchor") : \E j \in MadeBy("SSDAnchor") :
    /\ i # j
    /\ DOMAIN results[i].ov = {} /\ DOMAIN results[j].ov = {}
    /\ ListsNow(i).aspect_ratios # ListsThen(i).aspect_ratios
    /\ ListsNow(j).aspect_ratios.f = <<F(1, 1), F(2, 1), F(3, 1), F(1, 2), F(1, 3)>>

\* the defaults ssd.py documents for the scalar fields of each record type
Documented(cls) ==
  CASE cls = "TfExampleDecoder" -> [regenerate_source_id |-> FALSE]
    [] cls = "TfExampleDecoderLabelMap" -> [regenerate_source_id |-> FALSE, label_map |-> ""]
    [] cls = "DataDecoder" -> [type |-> "simple_decoder"]
    [] cls = "Parser" ->
         [match_threshold |-> <<1, 2>>, unmatched_threshold |-> <<1, 2>>,
          aug_rand_hflip |-> FALSE, aug_scale_min |-> <<1, 1>>,
          aug_scale_max |-> <<1, 1>>, skip_crowd_during_training |-> TRUE,
          max_num_instances |-> 100]
    [] cls = "DataConfig" ->
         [input_path |-> "", global_batch_size |-> 0, is_training |-> FALSE,
          dtype |-> "bfloat16", shuffle_buffer_size |-> 10000, file_type |-> "tfrecord"]
    [] cls = "SSDAnchor" ->
         [min_scale |-> <<1, 5>>, max_scale |-> <<19, 20>>,
          interpolated_scale_aspect_ratio |-> <<1, 1>>, anchor_size |-> <<4, 1>>]
    [] cls = "Losses" ->
         [focal_loss_alpha |-> <<1, 4>>, focal_loss_gamma |-> <<3, 2>>,
          huber_loss_delta |-> <<1, 10>>, box_loss_weight |-> 50,
          l2_weight_decay |-> <<0, 1>>]
    [] cls = "SSDHead" ->
         [kernel_size |-> 3, use_depthwise |-> TRUE, activation |-> "relu6",
          use_sync_bn |-> FALSE, freeze_norm |-> FALSE, add_background_class |-> TRUE,
          class_prediction_bias_init |-> <<-23, 5>>]
    [] cls = "DetectionGenerator" ->
         [pre_nms_top_k |-> 5000, pre_nms_score_threshold |-> <<1, 20>>,
          nms_iou_threshold |-> <<1, 2>>, max_num_detections |-> 100,
          use_batched_nms |-> FALSE]
    [] cls = "SSDModel" -> [num_classes |-> 0, min_level |-> 4, num_layers |-> 6]
    [] cls = "SSDTask" ->
         [init_checkpoint |-> None, init_checkpoint_modules |-> "all",
          annotation_file |-> None, per_category_metrics |-> FALSE]

\* the scalar fields of a tree node
Scalars(t) == [n \in ScalarNames(t.cls) |-> t.f[n]]

\* the nested records and lists a default-constructed record documents
DocumentedNested(t) ==
  CASE t.cls = "DataDecoder" ->
         /\ Scalars(t.f.simple_decoder) = Documented("TfExampleDecoder")
         /\ Scalars(t.f.label_map_decoder) = Documented("TfExampleDecoderLabelMap")
    [] t.cls = "DataConfig" ->
         /\ Scalars(t.f.decoder) = Documented("DataDecoder")
         /\ Scalars(t.f.parser) = Documented("Parser")
    [] t.cls = "SSDAnchor" ->
         /\ t.f.scales = NoneRef
         /\ t.f.aspect_ratios.f = << <<1, 1>>, <<2, 1>>, <<3, 1>>, <<1, 2>>, <<1, 3>> >>
    [] t.cls = "SSDModel" ->
         /\ t.f.input_size.f = <<>>
         /\ Scalars(t.f.anchor) = Documented("SSDAnchor")
         /\ t.f.backbone.f.type = "mobiledet" /\ t.f.backbone.f.mobiledet.cls = "MobileDet"
         /\ t.f.decoder.f.type = "mrfm"
         /\ t.f.decoder.f.mrfm.f.fml_from_layer.f = <<"4", "5", "", "", "", "">>
         /\ t.f.decoder.f.mrfm.f.fml_layer_depth.f = <<-1, -1, 512, 256, 256, 128>>
         /\ Scalars(t.f.head) = Documented("SSDHead")
         /\ Scalars(t.f.detection_generator) = Documented("DetectionGenerator")
         /\ t.f.norm_activation.cls = "NormActivation"
    [] t.cls = "SSDTask" ->
         /\ Scalars(t.f.model) = Documented("SSDModel")
         /\ Scalars(t.f.train_data)
              = [Documented("DataConfig") EXCEPT !.is_training = TRUE]
         /\ Scalars(t.f.validation_data) = Documented("DataConfig")
         /\ Scalars(t.f.losses) = Documented("Losses")
    [] OTHER -> TRUE

\* C7: every record type of ssd.py is constructible without arguments, every
\* declared field then holds its default, and the defaults are the documented
\* ones (None for SSDAnchor.scales, SSDTask.init_checkpoint and
\* SSDTask.annotation_file, whose declared default is None).
C7_Defaults ==
  \A i \in 1..Len(results) :
    (results[i].by \in SchemaTypes /\ DOMAIN results[i].ov = {}) =>
      LET t == results[i].orig
      IN  /\ t.cls = results[i].by
          /\ DOMAIN t.f = FieldNames(t.cls)
          /\ Scalars(t) = Documented(t.cls)
          /\ DocumentedNested(t)

\* every record type has been constructed without arguments in some state;
\* here, the largest one
C7_Witness ==
  \E i \in MadeBy("SSDTask") : DOMAIN results[i].ov = {} /\ muts > 0

\* the DataDecoder records of a configuration, as handed over
DecodersOf(r) ==
  CASE r.by = "DataDecoder" -> <<r.orig>>
    [] r.by = "DataConfig" -> <<r.orig.f.decoder>>
    [] r.by = "SSDTask" ->
         <<r.orig.f.train_data.f.decoder, r.orig.f.validation_data.f.decoder>>
    [] r.by \in {"ssd", "ssd_mobiledet_coco"} ->
         <<r.orig.f.task.f.train_data.f.decoder,
           r.orig.f.task.f.validation_data.f.decoder>>
    [] OTHER -> <<>>

BothPayloads(d) ==
  /\ d.f.simple_decoder.cls = "TfExampleDecoder"
  /\ d.f.label_map_decoder.cls = "TfExampleDecoderLabelMap"

====
